---- MODULE Spec2Model ----
(***************************************************************************)
(* Model of the Elasticsearch import/export utilities.                     *)
(*   es-importer.py: reader -> process_stream -> process_data ->           *)
(*                   process_file (dry-run print or bulk send)             *)
(*   es-exporter.py: process_query (scroll) -> process_results             *)
(*                   (optional post_process_document) -> output sink       *)
(* Text is a sequence of characters (one-character strings), JSON values   *)
(* are tagged tuples, and each generator is a small state machine whose   *)
(* program counter names the source line it is suspended at.               *)
(***************************************************************************)
EXTENDS Integers, Sequences, FiniteSets, TLC

VARIABLES
    \* ---- importer ----
    file_path,       \* argument file_path, as <<stem, extension>>
    generate_action, \* argument generate_action
    id_field,        \* argument id_field: None or text
    pipeline,        \* argument pipeline: None or text
    chunk_size,      \* argument chunk_size
    dry_run,         \* argument dry_run
    records,         \* records the reader has yielded so far (history)
    stream,          \* groups yielded so far by the data iterator (history)
    processed_data,  \* process_data's accumulator
    held,            \* the group process_data holds while suspended at line 87
    pd_pc,           \* process_data: "idle" | "loop" | "yield87" | "yield91" | "done" | "raised"
    pf_pc,           \* process_file: "idle" | "next" | "body" | "bulk" | "done" | "raised"
    batches,         \* batches handed to the loop body of the consumer, in order
    stdout,          \* lines printed to standard output
    bulk_log,        \* bulk requests issued to the store, in order
    bulk_acked,      \* how many of them have returned or raised
    rl_pc,           \* read_lines: "idle" | "start" | "lines" | "done" | "raised"
    err,             \* NoError or the exception that ended the run
    \* ---- exporter ----
    post_process,    \* argument post_process: None or a command
    full,            \* argument full
    ex_pc,           \* process_results: "idle" | "next" | "proc" | "done" | "raised"
    scrolled,        \* results the scroll reader has yielded so far (history)
    sink,            \* print calls made on the output target, in order
    ex_err,          \* NoError or the exception that ended the export
    output_file,     \* argument output_file: None or a path
    query_file,      \* argument query_file: "-" or a path
    output_target,   \* "unopened" | "stdout" | "open" | "closed"
    query_source,    \* "unopened" | "stdin" | "open" | "closed"
    running,         \* ordinals of the results whose filter command is running
    spawned,         \* ordinals of the results a command was started for, in order
    \* ---- main of either program ----
    program,         \* "importer" | "exporter"
    main_pc,         \* main: the test it is at | "construct" | "run" | "done" | "raised" | "exit"
    main_err,        \* NoError or the exception that left main
    es,              \* the store client: "none" | "open" | "closed"
    username,        \* argument username
    argv_username,   \* whether -u was given on the command line
    password,        \* argument password: None or text
    use_ssl,         \* argument use_ssl
    ca_cert,         \* argument ca_cert: None or a path
    argv_no_generate_action  \* whether --no-generate-action was given

imp_vars == <<file_path, generate_action, id_field, pipeline, chunk_size, dry_run,
              records, stream, processed_data, held, pd_pc, pf_pc, batches, stdout,
              bulk_log, bulk_acked, rl_pc, err>>
exp_vars == <<post_process, full, ex_pc, scrolled, sink, ex_err, output_file, query_file,
              output_target, query_source, running, spawned>>
run_vars == <<program, main_pc, main_err, es, username, argv_username, password, use_ssl,
              ca_cert, argv_no_generate_action>>
vars == <<imp_vars, exp_vars, run_vars>>

\* a JSON value is <<kind, payload>>
Kind(v) == v[1]
Val(v) == v[2]
None == <<"null", 0>>
NoError == <<>>    \* no exception; an exception is <<name, source line>>

\* the exporter's state in a run that does not export
ExportUnused ==
    /\ output_file = None
    /\ query_file = <<"-">>
    /\ output_target = "unopened"
    /\ query_source = "unopened"
    /\ running = {}
    /\ spawned = <<>>

\* main's state while the pipeline of program prog runs under a client
\* that main constructed from the default connection arguments
Elastic == <<"e", "l", "a", "s", "t", "i", "c">>
InsidePipeline(prog) ==
    /\ program = prog
    /\ main_pc = "run"
    /\ main_err = NoError
    /\ es = "open"
    /\ username = Elastic
    /\ argv_username = FALSE
    /\ password = None
    /\ use_ssl = TRUE
    /\ ca_cert = None
    /\ argv_no_generate_action = generate_action

\* ------------------------------------------------------------------------
\* Bounds of the model
\* ------------------------------------------------------------------------
MaxGroups == 4     \* groups fed to process_data in BatchSpec
MaxGroupLen == 2   \* longest group fed to process_data in BatchSpec
MaxChunk == 3      \* largest chunk size tried

\* ------------------------------------------------------------------------
\* Sequence helpers
\* ------------------------------------------------------------------------
\* the concatenation of a sequence of sequences (by halves, to stay shallow)
RECURSIVE Flatten(_)
Flatten(ss) ==
    IF ss = <<>> THEN <<>>
    ELSE IF Len(ss) = 1 THEN ss[1]
    ELSE LET m == Len(ss) \div 2
         IN  Flatten(SubSeq(ss, 1, m)) \o Flatten(SubSeq(ss, m + 1, Len(ss)))

\* ------------------------------------------------------------------------
\* process_data (es-importer.py 83-91)
\* ------------------------------------------------------------------------
\* line 86: the flush test made before a group is appended
OverflowAccOnlyMut(acc, lines, n) == Len(acc) > n
Overflow(acc, lines, n) == Len(acc) + Len(lines) > n

\* lines 85-89 up to the next suspension: a group arrives from the data
\* iterator; either the accumulator is yielded (line 87) and the group is
\* held until the consumer asks for the next batch, or the group is appended.
PD_TakeFillMut(lines) ==
    /\ stream' = Append(stream, lines)
    /\ LET room == IF chunk_size > Len(processed_data)
                      THEN chunk_size - Len(processed_data) ELSE 0
       IN  IF Len(lines) > room
              THEN /\ pd_pc' = "yield87"
                   /\ held' = SubSeq(lines, room + 1, Len(lines))
                   /\ batches' = Append(batches, processed_data \o SubSeq(lines, 1, room))
                   /\ pf_pc' = "body"
                   /\ UNCHANGED processed_data
              ELSE /\ processed_data' = processed_data \o lines
                   /\ UNCHANGED <<pd_pc, held, batches, pf_pc>>
PD_Take(lines) ==
    /\ stream' = Append(stream, lines)
    /\ IF Overflow(processed_data, lines, chunk_size)
          THEN /\ pd_pc' = "yield87"
               /\ held' = lines
               /\ batches' = Append(batches, processed_data)
               /\ pf_pc' = "body"
               /\ UNCHANGED processed_data
          ELSE /\ processed_data' = processed_data \o lines
               /\ UNCHANGED <<pd_pc, held, batches, pf_pc>>

\* lines 88-89: the consumer asks for the next batch while process_data is
\* suspended at line 87; the accumulator restarts with the held group.
PD_Resume87 == /\ processed_data' = held
               /\ held' = <<>>
               /\ pd_pc' = "loop"

\* lines 90-91: the data iterator is exhausted; a non-empty accumulator is
\* yielded as the last batch.
PD_NoFlushMut == /\ pd_pc' = "done"
                 /\ pf_pc' = "done"
                 /\ UNCHANGED batches
PD_Exhausted ==
    IF processed_data # <<>>
       THEN /\ pd_pc' = "yield91"
            /\ batches' = Append(batches, processed_data)
            /\ pf_pc' = "body"
       ELSE /\ pd_pc' = "done"
            /\ pf_pc' = "done"
            /\ UNCHANGED batches

\* the consumer asks for the next batch: process_data resumes after the
\* yield it is suspended at
PD_Resume ==
    IF pd_pc = "yield87"
       THEN PD_Resume87 /\ pf_pc' = "next"
       ELSE /\ pd_pc' = "done"
            /\ pf_pc' = "done"
            /\ UNCHANGED <<processed_data, held>>

\* ------------------------------------------------------------------------
\* BatchSpec: process_data driven by an arbitrary finite stream of groups,
\* its consumer only collecting the batches.
\* ------------------------------------------------------------------------
\* the lines of the g-th group of the stream, each line tagged with its origin
GroupOf(g, len) == [i \in 1..len |-> <<g, i>>]

BatchInit ==
    /\ file_path = <<>>
    /\ generate_action = FALSE
    /\ id_field = None
    /\ pipeline = None
    /\ chunk_size \in 0..MaxChunk
    /\ dry_run = FALSE
    /\ records = <<>>
    /\ stream = <<>>
    /\ processed_data = <<>>
    /\ held = <<>>
    /\ pd_pc = "loop"
    /\ pf_pc = "next"
    /\ batches = <<>>
    /\ stdout = <<>>
    /\ bulk_log = <<>>
    /\ bulk_acked = 0
    /\ rl_pc = "idle"
    /\ err = NoError
    /\ post_process = None
    /\ full = FALSE
    /\ ex_pc = "done"
    /\ scrolled = <<>>
    /\ sink = <<>>
    /\ ex_err = NoError
    /\ ExportUnused
    /\ InsidePipeline("importer")

BatchPull ==
    /\ pf_pc = "next" /\ pd_pc = "loop"
    /\ Len(stream) < MaxGroups
    /\ \E len \in 0..MaxGroupLen : PD_Take(GroupOf(Len(stream) + 1, len))
    /\ UNCHANGED <<file_path, generate_action, id_field, pipeline, chunk_size, dry_run,
                   rl_pc, records, stdout, bulk_log, bulk_acked, err>>
    /\ UNCHANGED <<exp_vars, run_vars>>

BatchEnd ==
    /\ pf_pc = "next" /\ pd_pc = "loop"
    /\ PD_Exhausted
    /\ UNCHANGED <<file_path, generate_action, id_field, pipeline, chunk_size, dry_run,
                   rl_pc, records, stream, processed_data, held, stdout, bulk_log,
                   bulk_acked, err>>
    /\ UNCHANGED <<exp_vars, run_vars>>

BatchCollect ==
    /\ pf_pc = "body"
    /\ PD_Resume
    /\ UNCHANGED <<file_path, generate_action, id_field, pipeline, chunk_size, dry_run,
                   rl_pc, records, stream, batches, stdout, bulk_log, bulk_acked, err>>
    /\ UNCHANGED <<exp_vars, run_vars>>

BatchNext == BatchPull \/ BatchEnd \/ BatchCollect

BatchSpec == BatchInit /\ [][BatchNext]_vars

\* ------------------------------------------------------------------------
\* JSON values and Python's operations on them
\* ------------------------------------------------------------------------
JStr(s) == <<"str", s>>
JInt(n) == <<"int", n>>
JFloat(n) == <<"float", n>>        \* the float n.0
JArr(items) == <<"arr", items>>
JObj(pairs) == <<"obj", pairs>>    \* <<key, value>> pairs, in insertion order

NonAscii == "U+00E9"   \* one character outside ASCII

K_index == <<"i", "n", "d", "e", "x">>
K_create == <<"c", "r", "e", "a", "t", "e">>
K_type == <<"_", "t", "y", "p", "e">>
K_id == <<"_", "i", "d">>
K_source == <<"_", "s", "o", "u", "r", "c", "e">>

HasKey(o, k) == \E i \in 1..Len(Val(o)) : Val(o)[i][1] = k
Lookup(o, k) == Val(o)[CHOOSE i \in 1..Len(Val(o)) : Val(o)[i][1] = k][2]

\* dict.get(k): the value, or None
DictGet(o, k) == IF HasKey(o, k) THEN Lookup(o, k) ELSE None

\* dict.pop(k, None): the dict without the key
DictPop(o, k) ==
    LET Keep(p) == p[1] # k
    IN  JObj(SelectSeq(Val(o), Keep))

\* d[k] = v: replaced in place, or appended
DictSet(o, k, v) ==
    IF HasKey(o, k)
       THEN JObj([i \in 1..Len(Val(o)) |-> IF Val(o)[i][1] = k THEN <<k, v>> ELSE Val(o)[i]])
       ELSE JObj(Append(Val(o), <<k, v>>))

\* Python truth value of a JSON value
Truthy(v) ==
    CASE Kind(v) = "null" -> FALSE
      [] Kind(v) \in {"int", "float"} -> Val(v) # 0
      [] OTHER -> Val(v) # <<>>

\* the outcome of an expression: a value, or the exception it raises
Ok(v) == [exc |-> "", at |-> 0, val |-> v]
Raise(e, line) == [exc |-> e, at |-> line, val |-> None]

\* v[k] for a string key k (es-importer.py 63): KeyError on a dict without
\* the key, TypeError on a value that str keys cannot index
SubscriptGetMut(v, k) == IF Kind(v) = "obj" THEN Ok(DictGet(v, k)) ELSE Ok(None)
Subscript(v, k) ==
    IF Kind(v) = "obj"
       THEN IF HasKey(v, k) THEN Ok(Lookup(v, k)) ELSE Raise("KeyError", 63)
       ELSE Raise("TypeError", 63)

\* str.split('.') (es-importer.py 60)
RECURSIVE Split(_)
Split(s) ==
    IF \E i \in 1..Len(s) : s[i] = "."
       THEN LET i == CHOOSE j \in 1..Len(s) :
                        s[j] = "." /\ \A m \in 1..(j - 1) : s[m] # "."
            IN  <<SubSeq(s, 1, i - 1)>> \o Split(SubSeq(s, i + 1, Len(s)))
       ELSE <<s>>

\* ------------------------------------------------------------------------
\* json.dumps: the text of a value, with Python's default separators
\* ------------------------------------------------------------------------
RECURSIVE Digits(_)
Digits(n) == IF n < 10 THEN <<ToString(n)>> ELSE Digits(n \div 10) \o <<ToString(n % 10)>>

EscapeChar(c, ensure_ascii) ==
    CASE c = "\"" -> <<"\\", "\"">>
      [] c = "\\" -> <<"\\", "\\">>
      [] c = "\n" -> <<"\\", "n">>
      [] c = NonAscii /\ ensure_ascii -> <<"\\", "u", "0", "0", "e", "9">>
      [] OTHER -> <<c>>

DumpsStr(s, ensure_ascii) ==
    <<"\"">> \o Flatten([i \in 1..Len(s) |-> EscapeChar(s[i], ensure_ascii)]) \o <<"\"">>

RECURSIVE Dumps(_, _)
Dumps(v, ensure_ascii) ==
    CASE Kind(v) = "null" -> <<"n", "u", "l", "l">>
      [] Kind(v) = "int" -> Digits(Val(v))
      [] Kind(v) = "float" -> Digits(Val(v)) \o <<".", "0">>
      [] Kind(v) = "str" -> DumpsStr(Val(v), ensure_ascii)
      [] Kind(v) = "arr" ->
            <<"[">> \o Flatten([i \in 1..Len(Val(v)) |->
                          (IF i > 1 THEN <<",", " ">> ELSE <<>>)
                          \o Dumps(Val(v)[i], ensure_ascii)]) \o <<"]">>
      [] Kind(v) = "obj" ->
            <<"{">> \o Flatten([i \in 1..Len(Val(v)) |->
                          (IF i > 1 THEN <<",", " ">> ELSE <<>>)
                          \o DumpsStr(Val(v)[i][1], ensure_ascii) \o <<":", " ">>
                          \o Dumps(Val(v)[i][2], ensure_ascii)]) \o <<"}">>

\* ------------------------------------------------------------------------
\* process_action and process_stream (es-importer.py 54-81)
\* ------------------------------------------------------------------------
\* process_action, lines 77-81: None stands for Python's None as the id
process_action_keep_type_mut(obj, id) ==
    LET meta == Lookup(obj, K_index)
    IN  IF Kind(meta) # "obj"
           THEN Raise(IF Kind(meta) = "arr" THEN "TypeError" ELSE "AttributeError", 77)
           ELSE Ok(Dumps(DictSet(obj, K_index,
                                 IF id # None THEN DictSet(meta, K_id, id) ELSE meta), TRUE))
process_action(obj, id) ==
    LET meta == Lookup(obj, K_index)
    IN  IF Kind(meta) # "obj"
           THEN Raise(IF Kind(meta) = "arr" THEN "TypeError" ELSE "AttributeError", 77)
           ELSE LET popped == DictPop(meta, K_type)
                    withid == IF id # None THEN DictSet(popped, K_id, id) ELSE popped
                IN  Ok(Dumps(DictSet(obj, K_index, withid), TRUE))

\* lines 61-63: walk the key path from the record
RECURSIVE Walk(_, _)
Walk(v, keypath) ==
    IF keypath = <<>>
       THEN Ok(v)
       ELSE LET r == Subscript(v, Head(keypath))
            IN  IF r.exc # "" THEN r ELSE Walk(r.val, Tail(keypath))

\* lines 57-72, the body of the loop for one record: the group of lines it
\* yields, or the exception it raises
process_stream_body(obj, gen, idf) ==
    IF gen
       THEN LET id == IF idf # None THEN Walk(obj, Split(Val(idf))) ELSE Ok(None)
            IN  IF id.exc # ""
                   THEN id
                   ELSE Ok(<<process_action(JObj(<< <<K_index, JObj(<<>>)>> >>), id.val).val,
                             Dumps(obj, TRUE)>>)
       ELSE IF Truthy(DictGet(obj, K_index))
               THEN LET a == process_action(obj, None)
                    IN  IF a.exc # "" THEN a ELSE Ok(<<a.val>>)
               ELSE Ok(<<Dumps(obj, TRUE)>>)


\* ------------------------------------------------------------------------
\* The importer: process_file over the reader (es-importer.py 45-110)
\* ------------------------------------------------------------------------
MaxRecords == 3       \* records a CSV file holds at most
MaxImportChunk == 4   \* largest chunk size tried by the importer

EndsWith(s, suffix) ==
    /\ Len(s) >= Len(suffix)
    /\ SubSeq(s, Len(s) - Len(suffix) + 1, Len(s)) = suffix

DotCsv == <<".", "c", "s", "v">>
IndexName == <<"f", "o", "o">>     \* argument index

\* rows read_csv yields (lines 49-52): header-keyed, every value a str or,
\* unquoted under QUOTE_NONNUMERIC, a float
CsvRows ==
    { JObj(<< <<(<<"a">>), JFloat(7)>> >>),
      JObj(<< <<(<<"a">>), JStr(<<"x">>)>>, <<K_index, JStr(<<"y">>)>> >>),
      JObj(<< <<K_index, JStr(<<>>)>> >>) }

IdFields == {None, JStr(<<"a">>), JStr(<<"a", ".", "b">>)}
Pipelines == {None, JStr(<<"b", "a", "r">>)}
FilePaths == { <<"d">> \o DotCsv, <<"d", ".", "j", "s", "o", "n", "l">> }

\* json.loads of a line json.dumps wrote (line 96): the value whose text the
\* line is, among the values process_stream can have serialised
LineValues ==
    CsvRows
    \cup { JObj(<< <<K_index, JObj(<<>>)>> >>) }
    \cup { JObj(<< <<K_index, JObj(<< <<K_id, Walk(r, Split(Val(f))).val>> >>)>> >>) :
              <<r, f>> \in { p \in CsvRows \X (IdFields \ {None}) :
                               Walk(p[1], Split(Val(p[2]))).exc = "" } }
Loads(text) == CHOOSE v \in LineValues : Dumps(v, TRUE) = text

\* send_data, lines 94-98: the bulk request handed to the store client
BulkRequest(data, index, pl) ==
    [index |-> index, pipeline |-> pl, body |-> [i \in 1..Len(data) |-> Loads(data[i])]]

\* process_file, lines 104-108: what dry-run prints for one batch
DryRunNoArgMut(data, index, pl) ==
    << <<"P", "U", "T", " ", "/">> \o index \o <<"/", "_", "b", "u", "l", "k">> >>
    \o data \o << <<>> >>
DryRunLines(data, index, pl) ==
    LET arg == IF pl # None
                  THEN <<"?", "p", "i", "p", "e", "l", "i", "n", "e", "=">> \o Val(pl)
                  ELSE <<>>
    IN  << <<"P", "U", "T", " ", "/">> \o index \o <<"/", "_", "b", "u", "l", "k">> \o arg >>
        \o data \o << <<>> >>

ImportInit ==
    /\ file_path \in FilePaths
    /\ generate_action \in BOOLEAN
    /\ id_field \in IdFields
    /\ pipeline \in Pipelines
    /\ chunk_size \in 1..MaxImportChunk
    /\ dry_run \in BOOLEAN
    /\ records = <<>>
    /\ stream = <<>>
    /\ processed_data = <<>>
    /\ held = <<>>
    /\ pd_pc = "loop"
    /\ pf_pc = "next"
    /\ batches = <<>>
    /\ stdout = <<>>
    /\ bulk_log = <<>>
    /\ bulk_acked = 0
    /\ rl_pc = "idle"
    /\ err = NoError
    /\ post_process = None
    /\ full = FALSE
    /\ ex_pc = "done"
    /\ scrolled = <<>>
    /\ sink = <<>>
    /\ ex_err = NoError
    /\ ExportUnused
    /\ InsidePipeline("importer")

imp_args == <<file_path, generate_action, id_field, pipeline, chunk_size, dry_run>>

\* the exception leaves process_stream, process_data (whose accumulator is
\* dropped with its frame) and process_file
Propagate(e) ==
    /\ err' = e
    /\ pd_pc' = "raised"
    /\ pf_pc' = "raised"

\* process_file asks for the next batch (line 102), process_data for the next
\* group (line 85), process_stream for the next record (line 56): read_csv
\* yields a row and the body of process_stream yields its group
ImportRecord ==
    /\ pf_pc = "next" /\ pd_pc = "loop"
    /\ EndsWith(file_path, DotCsv)
    /\ Len(records) < MaxRecords
    /\ \E obj \in CsvRows :
          LET r == process_stream_body(obj, generate_action, id_field)
          IN  /\ r.exc = ""
              /\ records' = Append(records, obj)
              /\ PD_Take(r.val)
    /\ UNCHANGED <<imp_args, rl_pc, stdout, bulk_log, bulk_acked, err>>
    /\ UNCHANGED <<exp_vars, run_vars>>

\* the same, for a record on which the body of process_stream raises
ImportRecordRaises ==
    /\ pf_pc = "next" /\ pd_pc = "loop"
    /\ EndsWith(file_path, DotCsv)
    /\ Len(records) < MaxRecords
    /\ \E obj \in CsvRows :
          LET r == process_stream_body(obj, generate_action, id_field)
          IN  /\ r.exc # ""
              /\ records' = Append(records, obj)
              /\ Propagate(<<r.exc, r.at>>)
    /\ UNCHANGED <<imp_args, rl_pc, stream, processed_data, held, batches, stdout,
                   bulk_log, bulk_acked>>
    /\ UNCHANGED <<exp_vars, run_vars>>

\* read_jsonl, lines 45-47: read_lines is called with a keyword it does not
\* have (encoding), so the first request for a record raises TypeError
ImportReadJsonl ==
    /\ pf_pc = "next" /\ pd_pc = "loop"
    /\ ~EndsWith(file_path, DotCsv)
    /\ Propagate(<<"TypeError", 46>>)
    /\ UNCHANGED <<imp_args, rl_pc, records, stream, processed_data, held, batches,
                   stdout,
                   bulk_log, bulk_acked>>
    /\ UNCHANGED <<exp_vars, run_vars>>

\* read_csv is exhausted: process_stream ends and process_data leaves its loop
ImportEnd ==
    /\ pf_pc = "next" /\ pd_pc = "loop"
    /\ EndsWith(file_path, DotCsv)
    /\ PD_Exhausted
    /\ UNCHANGED <<imp_args, rl_pc, records, stream, processed_data, held, stdout,
                   bulk_log, bulk_acked, err>>
    /\ UNCHANGED <<exp_vars, run_vars>>

\* process_file, lines 103-108: the batch is printed, then the next is asked for
DryRunPrint ==
    /\ pf_pc = "body" /\ dry_run
    /\ stdout' = stdout \o DryRunLines(batches[Len(batches)], IndexName, pipeline)
    /\ PD_Resume
    /\ UNCHANGED <<imp_args, rl_pc, records, stream, batches, bulk_log, bulk_acked, err>>
    /\ UNCHANGED <<exp_vars, run_vars>>

BulkSendNoAwaitMut ==
    /\ pf_pc = "body" /\ ~dry_run
    /\ bulk_log' = Append(bulk_log, BulkRequest(batches[Len(batches)], IndexName, pipeline))
    /\ PD_Resume
    /\ UNCHANGED <<imp_args, rl_pc, records, stream, batches, stdout, bulk_acked, err>>
    /\ UNCHANGED <<exp_vars, run_vars>>

\* process_file, line 110, and send_data up to the await of line 98
BulkSend ==
    /\ pf_pc = "body" /\ ~dry_run
    /\ bulk_log' = Append(bulk_log, BulkRequest(batches[Len(batches)], IndexName, pipeline))
    /\ pf_pc' = "bulk"
    /\ UNCHANGED <<imp_args, rl_pc, records, stream, processed_data, held, pd_pc, batches,
                   stdout, bulk_acked, err>>
    /\ UNCHANGED <<exp_vars, run_vars>>

\* es.bulk returns: the next batch is asked for
BulkReturn ==
    /\ pf_pc = "bulk"
    /\ bulk_acked' = bulk_acked + 1
    /\ PD_Resume
    /\ UNCHANGED <<imp_args, rl_pc, records, stream, batches, stdout, bulk_log, err>>
    /\ UNCHANGED <<exp_vars, run_vars>>

\* es.bulk raises: nothing catches it
BulkFail ==
    /\ pf_pc = "bulk"
    /\ bulk_acked' = bulk_acked + 1
    /\ Propagate(<<"TransportError", 98>>)
    /\ UNCHANGED <<imp_args, rl_pc, records, stream, processed_data, held, batches,
                   stdout,
                   bulk_log>>
    /\ UNCHANGED <<exp_vars, run_vars>>

ImportNext ==
    \/ ImportRecord
    \/ ImportRecordRaises
    \/ ImportReadJsonl
    \/ ImportEnd
    \/ DryRunPrint
    \/ BulkSend
    \/ BulkReturn
    \/ BulkFail

ImportSpec == ImportInit /\ [][ImportNext]_vars


\* ------------------------------------------------------------------------
\* Properties of process_data (BatchSpec)
\* ------------------------------------------------------------------------
\* C1: every batch process_data yields has at most chunk_size lines, unless
\* it is exactly one group of the stream whose own length exceeds chunk_size.
C1_BatchWithinChunk ==
    \A b \in 1..Len(batches) :
        \/ Len(batches[b]) <= chunk_size
        \/ \E g \in 1..Len(stream) :
              /\ batches[b] = stream[g]
              /\ Len(stream[g]) > chunk_size

\* a finished run that yielded an oversized one-group batch and a full batch
C1_Witness ==
    /\ pd_pc = "done"
    /\ chunk_size > 0
    /\ \E b \in 1..Len(batches) : Len(batches[b]) > chunk_size
    /\ \E b \in 1..Len(batches) : Len(batches[b]) = chunk_size

\* C2: once the stream is exhausted and process_data has finished, the
\* batches concatenated in emission order are the groups concatenated in
\* input order (nothing lost, duplicated or reordered; the last partial
\* accumulator is flushed).
C2_ConcatEqualsStream ==
    pd_pc = "done" => Flatten(batches) = Flatten(stream)

\* a finished run of several batches whose last one is a partial accumulator
C2_Witness ==
    /\ pd_pc = "done"
    /\ Len(stream) >= 3
    /\ Len(batches) >= 2
    /\ batches[Len(batches)] # <<>>
    /\ Len(batches[Len(batches)]) < chunk_size

\* ------------------------------------------------------------------------
\* Properties of the importer (ImportSpec)
\* ------------------------------------------------------------------------
RECURSIVE LinesBefore(_)
LinesBefore(b) == IF b <= 1 THEN 0 ELSE LinesBefore(b - 1) + Len(batches[b - 1])

IndexActionPrefix == <<"{", "\"">> \o K_index \o <<"\"", ":", " ", "{">>
IsIndexActionLine(text) ==
    /\ Len(text) >= Len(IndexActionPrefix)
    /\ SubSeq(text, 1, Len(IndexActionPrefix)) = IndexActionPrefix

\* C3: in synthesize mode every dispatched batch has even length and is made
\* of whole (action line, document line) pairs: the j-th pair of a batch is
\* the group of one record, action first, the record's document second.
C3_PairsStayTogether ==
    generate_action =>
        \A b \in 1..Len(batches) :
            /\ Len(batches[b]) % 2 = 0
            /\ \A j \in 1..(Len(batches[b]) \div 2) :
                  LET k == (LinesBefore(b) \div 2) + j
                  IN  /\ k <= Len(stream)
                      /\ <<batches[b][2 * j - 1], batches[b][2 * j]>> = stream[k]
                      /\ IsIndexActionLine(batches[b][2 * j - 1])
                      /\ batches[b][2 * j] = Dumps(records[k], TRUE)

\* synthesize mode, a batch of two pairs dispatched and then another batch
C3_Witness ==
    /\ generate_action
    /\ Len(batches) >= 2
    /\ Len(batches[1]) = 4
    /\ batches[2] # <<>>

\* str(v), the rendering of a value as a string
PyStr(v) ==
    CASE Kind(v) = "str" -> Val(v)
      [] Kind(v) = "int" -> Digits(Val(v))
      [] Kind(v) = "float" -> Digits(Val(v)) \o <<".", "0">>
      [] OTHER -> Dumps(v, TRUE)

\* C5: in synthesize mode with an id path that resolves in the record, the
\* action line carries _id equal to the value at the path rendered as a
\* string, and the document line is the unmodified record.
C5_IdRenderedAsString ==
    (generate_action /\ id_field # None) =>
        \A k \in 1..Len(stream) :
            LET id == Walk(records[k], Split(Val(id_field))).val
            IN  stream[k] =
                  << Dumps(JObj(<< <<K_index, JObj(<< <<K_id, JStr(PyStr(id))>> >>)>> >>), TRUE),
                     Dumps(records[k], TRUE) >>

\* a segment of the key path is absent from the value, or is looked up in a
\* value that is not a mapping
RECURSIVE Unresolved(_, _)
Unresolved(v, keypath) ==
    /\ keypath # <<>>
    /\ \/ Kind(v) # "obj"
       \/ ~HasKey(v, Head(keypath))
       \/ Unresolved(Lookup(v, Head(keypath)), Tail(keypath))

\* C6: in synthesize mode a record in which the id path does not resolve
\* ends the run with the lookup error of line 63: it is the last record
\* read, no group was yielded for it, and from then on nothing changes (no
\* later record is read, the accumulator is never dispatched).
C6_LookupFailureAborts ==
    /\ [](\A k \in 1..Len(records) :
            (generate_action /\ id_field # None
               /\ Unresolved(records[k], Split(Val(id_field))))
            => /\ k = Len(records)
               /\ Len(stream) = k - 1
               /\ err # NoError
               /\ err[1] \in {"KeyError", "TypeError"}
               /\ err[2] = 63
               /\ pf_pc = "raised"
               /\ pd_pc = "raised")
    /\ [][err # NoError => UNCHANGED vars]_vars

\* a lookup failure after a batch was sent, with lines left in the accumulator
C6_Witness ==
    /\ err = <<"KeyError", 63>>
    /\ processed_data # <<>>
    /\ bulk_log # <<>>

\* C7: in dry-run mode the output is, for each batch handled so far, the
\* header PUT /<index>/_bulk (with ?pipeline=<pipeline> exactly when a
\* pipeline is configured), the batch's lines in order and one empty line;
\* and no bulk request is issued.
C7_Header ==
    <<"P", "U", "T", " ", "/">> \o IndexName \o <<"/", "_", "b", "u", "l", "k">>
    \o (IF pipeline = None THEN <<>>
        ELSE <<"?", "p", "i", "p", "e", "l", "i", "n", "e", "=">> \o Val(pipeline))
C7_DryRunOutput ==
    dry_run =>
        /\ bulk_log = <<>>
        /\ LET handled == IF pf_pc = "body" THEN Len(batches) - 1 ELSE Len(batches)
           IN  stdout = Flatten([b \in 1..handled |->
                                    <<C7_Header>> \o batches[b] \o << <<>> >>])

\* a finished dry run with a pipeline that printed two batches
C7_Witness ==
    /\ dry_run
    /\ pipeline # None
    /\ pf_pc = "done"
    /\ Len(batches) >= 2
    /\ Len(stdout) >= 6


\* ------------------------------------------------------------------------
\* StreamSpec: the loop body of process_stream (es-importer.py 56-72) applied
\* to a stream of decoded JSON objects, whatever reader produced them.
\* ------------------------------------------------------------------------
MaxStreamRecords == 2   \* objects fed to the loop body

Doc1 == JObj(<< <<K_type, JStr(<<"d">>)>>, <<K_id, JStr(<<"1">>)>> >>)
JsonRecords ==
    { JObj(<< <<K_index, Doc1>> >>),                                 \* {"index": {"_type": "d", "_id": "1"}}
      JObj(<< <<K_index, JObj(<< <<K_id, JStr(<<"1">>)>> >>)>> >>),  \* {"index": {"_id": "1"}}
      JObj(<< <<K_index, JObj(<<>>)>> >>),                           \* {"index": {}}
      JObj(<< <<K_index, JInt(5)>> >>),                              \* {"index": 5}
      JObj(<< <<K_create, Doc1>> >>),                                \* {"create": {"_type": "d", "_id": "1"}}
      JObj(<< <<(<<"a">>), JObj(<< <<(<<"b">>), JInt(7)>> >>)>> >>), \* {"a": {"b": 7}}
      JObj(<< <<(<<"a">>), JArr(<<JInt(1)>>)>> >>),                  \* {"a": [1]}
      JObj(<< <<(<<"a">>), None>> >>) }                              \* {"a": null}

StreamIdFields == IdFields \cup {JStr(<<"a", ".", "c">>)}

StreamInit ==
    /\ file_path = <<>>
    /\ generate_action \in BOOLEAN
    /\ id_field \in StreamIdFields
    /\ pipeline = None
    /\ chunk_size = 0
    /\ dry_run = FALSE
    /\ records = <<>>
    /\ stream = <<>>
    /\ processed_data = <<>>
    /\ held = <<>>
    /\ pd_pc = "done"
    /\ pf_pc = "next"
    /\ batches = <<>>
    /\ stdout = <<>>
    /\ bulk_log = <<>>
    /\ bulk_acked = 0
    /\ rl_pc = "idle"
    /\ err = NoError
    /\ post_process = None
    /\ full = FALSE
    /\ ex_pc = "done"
    /\ scrolled = <<>>
    /\ sink = <<>>
    /\ ex_err = NoError
    /\ ExportUnused
    /\ InsidePipeline("importer")

\* the body yields the group of the next object
StreamRecord ==
    /\ pf_pc = "next"
    /\ Len(records) < MaxStreamRecords
    /\ \E obj \in JsonRecords :
          LET r == process_stream_body(obj, generate_action, id_field)
          IN  /\ r.exc = ""
              /\ records' = Append(records, obj)
              /\ stream' = Append(stream, r.val)
    /\ UNCHANGED <<imp_args, rl_pc, processed_data, held, pd_pc, pf_pc, batches, stdout,
                   bulk_log, bulk_acked, err>>
    /\ UNCHANGED <<exp_vars, run_vars>>

\* the body raises on the next object
StreamRecordRaises ==
    /\ pf_pc = "next"
    /\ Len(records) < MaxStreamRecords
    /\ \E obj \in JsonRecords :
          LET r == process_stream_body(obj, generate_action, id_field)
          IN  /\ r.exc # ""
              /\ records' = Append(records, obj)
              /\ err' = <<r.exc, r.at>>
              /\ pf_pc' = "raised"
    /\ UNCHANGED <<imp_args, rl_pc, stream, processed_data, held, pd_pc, batches,
                   stdout, bulk_log, bulk_acked>>
    /\ UNCHANGED <<exp_vars, run_vars>>

StreamNext == StreamRecord \/ StreamRecordRaises

StreamSpec == StreamInit /\ [][StreamNext]_vars

\* ------------------------------------------------------------------------
\* Properties of process_stream (StreamSpec)
\* ------------------------------------------------------------------------
Contains(text, part) ==
    \E i \in 1..(Len(text) - Len(part) + 1) : SubSeq(text, i, i + Len(part) - 1) = part

TypeFieldText == <<"\"">> \o K_type \o <<"\"", ":">>

\* the object is a bulk action whose operation type is one of ops
IsActionObject(obj, ops) ==
    \E i \in 1..Len(Val(obj)) : Val(obj)[i][1] \in ops /\ Kind(Val(obj)[i][2]) = "obj"

NoTypeInActions(ops) ==
    \A k \in 1..Len(stream) :
        /\ generate_action => ~Contains(stream[k][1], TypeFieldText)
        /\ (~generate_action /\ IsActionObject(records[k], ops))
              => ~Contains(stream[k][1], TypeFieldText)

MaxDocs == 3   \* results the scroll yields at most

\* results async_scan yields: an envelope holding the payload under _source
Hit(id, source) == JObj(<< <<K_id, JStr(id)>>, <<K_source, source>> >>)
ScrollHits ==
    { Hit(<<"1">>, JObj(<< <<(<<"t">>), JStr(<<"a">>)>> >>)),
      Hit(<<"2">>, JObj(<< <<(<<"t">>), JStr(<<NonAscii>>)>> >>)),
      Hit(<<"3">>, JObj(<<>>)) }

\* str.encode / bytes.decode for utf-8: an ASCII character is one byte, the
\* character outside ASCII two; a stray byte does not decode (line 50)
Encode(text) ==
    Flatten([i \in 1..Len(text) |->
                IF text[i] = NonAscii THEN <<"xC3", "xA9">> ELSE <<text[i]>>])

Decode(bytes) ==
    LET n == Len(bytes)
        lead(i) == bytes[i] = "xC3"
        cont(i) == bytes[i] = "xA9"
        wellformed ==
            \A i \in 1..n :
                /\ bytes[i] # "xFF"
                /\ lead(i) => (i < n /\ cont(i + 1))
                /\ cont(i) => (i > 1 /\ lead(i - 1))
    IN  IF wellformed
           THEN Ok(Flatten([i \in 1..n |->
                              IF lead(i) THEN <<NonAscii>>
                              ELSE IF cont(i) THEN <<>> ELSE <<bytes[i]>>]))
           ELSE Raise("UnicodeDecodeError", 50)

\* str.strip() (line 50)
Whitespace == {" ", "\n", "\t"}
StripNothingMut(s) == s
Strip(s) ==
    LET inked == {i \in 1..Len(s) : s[i] \notin Whitespace}
    IN  IF inked = {} THEN <<>>
        ELSE SubSeq(s, CHOOSE i \in inked : \A j \in inked : i <= j,
                       CHOOSE i \in inked : \A j \in inked : i >= j)

\* the filter commands tried, by what each writes to its output for the
\* bytes it reads: cat copies them; grep copies them and a newline when they
\* hold an "a", and writes nothing otherwise; jq writes them over several
\* lines; blank writes white space only; bad writes a byte that is no text
Cmd_cat == JStr(<<"c", "a", "t">>)
Cmd_grep == JStr(<<"g", "r", "e", "p">>)
Cmd_jq == JStr(<<"j", "q">>)
Cmd_blank == JStr(<<"b", "l", "a", "n", "k">>)
Cmd_bad == JStr(<<"b", "a", "d">>)
Commands == {Cmd_cat, Cmd_grep, Cmd_jq, Cmd_blank, Cmd_bad}

CommandOutput(command, input) ==
    CASE command = Cmd_cat -> input
      [] command = Cmd_grep ->
            IF \E i \in 1..Len(input) : input[i] = "a" THEN input \o <<"\n">> ELSE <<>>
      [] command = Cmd_jq ->
            IF Len(input) > 2
               THEN <<input[1], "\n">> \o SubSeq(input, 2, Len(input) - 1)
                    \o <<"\n", input[Len(input)], "\n">>
               ELSE input \o <<"\n">>
      [] command = Cmd_blank -> <<" ", "\n">>
      [] OTHER -> <<"xFF">>

\* post_process_document, lines 36-51: the text the command returns for the
\* document, or the decode error
post_process_document(document, command) ==
    LET input_json == Dumps(document, TRUE)
        output_bytes == CommandOutput(command, Encode(input_json))
        r == Decode(output_bytes)
    IN  IF r.exc # "" THEN r ELSE Ok(Strip(r.val))

\* line 60: the whole result, or its payload
ProcessedResult(result, whole) == IF whole THEN result ELSE Lookup(result, K_source)

\* line 67: print to the output target; n is the ordinal of the result
SinkWriteFrontMut(out, n, text) == <<[n |-> n, text |-> text]>> \o out
SinkWrite(out, n, text) == Append(out, [n |-> n, text |-> text])

\* the text of the output target: each print call writes its text and a newline
RECURSIVE SinkText(_)
SinkText(out) ==
    IF out = <<>> THEN <<>> ELSE Head(out).text \o <<"\n">> \o SinkText(Tail(out))

\* arguments query_file and output_file
Stdin == <<"-">>
QueryFiles == {Stdin, <<"q", ".", "j", "s", "o", "n">>}
OutputFiles == {None, JStr(<<"o", "u", "t">>)}

\* line 56: the output target process_results starts with
OutputOpened(out) == IF out = None THEN "stdout" ELSE "open"
\* lines 69-71: the finally of process_results
OutputClosed(out, target) == IF out # None THEN "closed" ELSE target
\* lines 15-18: the query source process_query starts with, at its first step
QueryOpened(qf, source) ==
    IF source # "unopened" THEN source ELSE IF qf = Stdin THEN "stdin" ELSE "open"
\* lines 30-32: the finally of process_query
QueryClosed(qf, source) == IF qf # Stdin THEN "closed" ELSE source

\* line 48: the command has exited once proc.wait() returns
ReapedNoWaitMut(procs, n) == procs
Reaped(procs, n) == procs \ {n}

ExportInit ==
    /\ file_path = <<>>
    /\ generate_action = FALSE
    /\ id_field = None
    /\ pipeline = None
    /\ chunk_size = 0
    /\ dry_run = FALSE
    /\ records = <<>>
    /\ stream = <<>>
    /\ processed_data = <<>>
    /\ held = <<>>
    /\ pd_pc = "done"
    /\ pf_pc = "done"
    /\ batches = <<>>
    /\ stdout = <<>>
    /\ bulk_log = <<>>
    /\ bulk_acked = 0
    /\ rl_pc = "idle"
    /\ err = NoError
    /\ post_process \in {None, JStr(<<>>)} \cup Commands
    /\ full \in BOOLEAN
    /\ ex_pc = "next"
    /\ scrolled = <<>>
    /\ sink = <<>>
    /\ ex_err = NoError
    /\ output_file \in OutputFiles
    /\ query_file \in QueryFiles
    /\ output_target = OutputOpened(output_file)
    /\ query_source = "unopened"
    /\ running = {}
    /\ spawned = <<>>
    /\ InsidePipeline("exporter")

\* lines 59-67 with no command: the scroll yields a result, which is
\* serialised and printed
ExportDirect ==
    /\ ex_pc = "next"
    /\ ~Truthy(post_process)
    /\ Len(scrolled) < MaxDocs
    /\ \E result \in ScrollHits :
          LET processed_output == Dumps(ProcessedResult(result, full), FALSE)
          IN  /\ scrolled' = Append(scrolled, result)
              /\ sink' = IF processed_output # <<>>
                            THEN SinkWrite(sink, Len(scrolled) + 1, processed_output)
                            ELSE sink
    /\ query_source' = QueryOpened(query_file, query_source)
    /\ UNCHANGED <<post_process, full, output_file, query_file, ex_pc, ex_err,
                   output_target, running, spawned>>
    /\ UNCHANGED <<imp_vars, run_vars>>

\* lines 59-62 and 36-46 with a command: the scroll yields a result, the
\* command is started, given the document and its input closed; the
\* coroutine waits for the output
ExportSpawn ==
    /\ ex_pc = "next"
    /\ Truthy(post_process)
    /\ Len(scrolled) < MaxDocs
    /\ \E result \in ScrollHits : scrolled' = Append(scrolled, result)
    /\ query_source' = QueryOpened(query_file, query_source)
    /\ running' = running \cup {Len(scrolled) + 1}
    /\ spawned' = Append(spawned, Len(scrolled) + 1)
    /\ ex_pc' = "proc"
    /\ UNCHANGED <<post_process, full, output_file, query_file, sink, ex_err,
                   output_target>>
    /\ UNCHANGED <<imp_vars, run_vars>>

\* lines 46-51 and 66-67: the output is read, decoded and trimmed, and
\* printed when it is not empty
ExportProcDone ==
    /\ ex_pc = "proc"
    /\ LET r == post_process_document(ProcessedResult(scrolled[Len(scrolled)], full),
                                      post_process)
       IN  /\ r.exc = ""
           /\ sink' = IF r.val # <<>> THEN SinkWrite(sink, Len(scrolled), r.val) ELSE sink
    /\ running' = Reaped(running, Len(scrolled))
    /\ ex_pc' = "next"
    /\ UNCHANGED <<post_process, full, output_file, query_file, scrolled, ex_err,
                   output_target, query_source, spawned>>
    /\ UNCHANGED <<imp_vars, run_vars>>

\* line 50 raises: the output is not text in the encoding; the finally of
\* process_results runs, process_query stays suspended at its yield
ExportProcRaises ==
    /\ ex_pc = "proc"
    /\ LET r == post_process_document(ProcessedResult(scrolled[Len(scrolled)], full),
                                      post_process)
       IN  /\ r.exc # ""
           /\ ex_err' = <<r.exc, r.at>>
    /\ running' = Reaped(running, Len(scrolled))
    /\ output_target' = OutputClosed(output_file, output_target)
    /\ ex_pc' = "raised"
    /\ UNCHANGED <<post_process, full, output_file, query_file, scrolled, sink,
                   query_source, spawned>>
    /\ UNCHANGED <<imp_vars, run_vars>>

\* the scroll is exhausted: process_query ends through its finally (lines
\* 30-32), the loop of line 59 ends and process_results through its own
\* finally (lines 69-71)
ExportEnd ==
    /\ ex_pc = "next"
    /\ ex_pc' = "done"
    /\ query_source' = QueryClosed(query_file, QueryOpened(query_file, query_source))
    /\ output_target' = OutputClosed(output_file, output_target)
    /\ UNCHANGED <<post_process, full, output_file, query_file, scrolled, sink, ex_err,
                   running, spawned>>
    /\ UNCHANGED <<imp_vars, run_vars>>

\* a scroll request fails (line 22): nothing catches it; both finally
\* clauses run as the exception passes
ExportScrollFails ==
    /\ ex_pc = "next"
    /\ ex_pc' = "raised"
    /\ ex_err' = <<"TransportError", 22>>
    /\ query_source' = QueryClosed(query_file, QueryOpened(query_file, query_source))
    /\ output_target' = OutputClosed(output_file, output_target)
    /\ UNCHANGED <<post_process, full, output_file, query_file, scrolled, sink,
                   running, spawned>>
    /\ UNCHANGED <<imp_vars, run_vars>>

ExportNext ==
    \/ ExportDirect
    \/ ExportSpawn
    \/ ExportProcDone
    \/ ExportProcRaises
    \/ ExportEnd
    \/ ExportScrollFails

ExportSpec == ExportInit /\ [][ExportNext]_vars


\* ------------------------------------------------------------------------
\* Properties of the exporter (ExportSpec)
\* ------------------------------------------------------------------------
\* the n-th result has been through the loop body of process_results
Completed(n) ==
    \/ n < Len(scrolled)
    \/ n = Len(scrolled) /\ ex_pc # "proc" /\ ex_err # <<"UnicodeDecodeError", 50>>

PrintsOf(n) == {i \in 1..Len(sink) : sink[i].n = n}
LineBreaks(text) == Cardinality({i \in 1..Len(text) : text[i] = "\n"})

\* output lines the n-th result produced: every print call ends its text
\* with a newline, and the text may hold line breaks of its own
RECURSIVE LinesIn(_, _)
LinesIn(out, n) ==
    IF out = <<>> THEN 0
    ELSE (IF Head(out).n = n THEN LineBreaks(Head(out).text) + 1 ELSE 0)
         + LinesIn(Tail(out), n)

\* what the command wrote for the n-th result, decoded
RawOutput(n) ==
    Decode(CommandOutput(post_process,
                         Encode(Dumps(ProcessedResult(scrolled[n], full), TRUE)))).val
AllWhite(text) == \A i \in 1..Len(text) : text[i] \in Whitespace

\* text is raw without its leading and trailing white space
IsTrimOf(text, raw) ==
    /\ text # <<>>
    /\ text[1] \notin Whitespace
    /\ text[Len(text)] \notin Whitespace
    /\ \E lo \in 1..Len(raw) :
          /\ lo + Len(text) - 1 <= Len(raw)
          /\ SubSeq(raw, lo, lo + Len(text) - 1) = text
          /\ AllWhite(SubSeq(raw, 1, lo - 1))
          /\ AllWhite(SubSeq(raw, lo + Len(text), Len(raw)))

\* C8 as stated: with a command, a result whose command output is empty after
\* trimming gives no output line and every other result exactly one; with no
\* command every result gives exactly one output line.
C8_OneLinePerDocument ==
    \A n \in 1..Len(scrolled) :
        Completed(n) =>
            IF Truthy(post_process)
               THEN LinesIn(sink, n) = (IF AllWhite(RawOutput(n)) THEN 0 ELSE 1)
               ELSE LinesIn(sink, n) = 1

\* C8 as amended: with a command, a result whose command output is empty
\* after trimming gives no output line, and every other result is written by
\* exactly one print call, as its trimmed output: one output line more than
\* the trimmed output holds line breaks, so exactly one line when it holds
\* none; with no command every result gives exactly one output line.
C8_OnePrintPerDocument ==
    \A n \in 1..Len(scrolled) :
        Completed(n) =>
            IF Truthy(post_process)
               THEN IF AllWhite(RawOutput(n))
                       THEN LinesIn(sink, n) = 0
                       ELSE /\ Cardinality(PrintsOf(n)) = 1
                            /\ \A i \in PrintsOf(n) :
                                  /\ IsTrimOf(sink[i].text, RawOutput(n))
                                  /\ LinesIn(sink, n) = 1 + LineBreaks(sink[i].text)
                                  /\ LineBreaks(sink[i].text) = 0 => LinesIn(sink, n) = 1
               ELSE LinesIn(sink, n) = 1

\* a finished export with a command that dropped one result (its output
\* was empty) and wrote another as one line
C8_Witness ==
    /\ ex_pc = "done"
    /\ Truthy(post_process)
    /\ \E n \in 1..Len(scrolled) : RawOutput(n) = <<>> /\ PrintsOf(n) = {}
    /\ \E n \in 1..Len(scrolled) : RawOutput(n) # <<>> /\ LinesIn(sink, n) = 1

\* C9: with the identity command every result's output line is the very
\* line the same result gives with no command (line 64).
C9_IdentityCommandSameLine ==
    post_process = Cmd_cat =>
        \A n \in 1..Len(scrolled) :
            Completed(n) =>
                /\ Cardinality(PrintsOf(n)) = 1
                /\ \A i \in PrintsOf(n) :
                      sink[i].text = Dumps(ProcessedResult(scrolled[n], full), FALSE)

\* the line process_results has for a result: the command's trimmed output,
\* or the compact JSON text
OutputOf(result) ==
    IF Truthy(post_process)
       THEN post_process_document(ProcessedResult(result, full), post_process).val
       ELSE Dumps(ProcessedResult(result, full), FALSE)

\* C10: the print calls on the output target are in the order the scroll
\* yielded their results: each call writes the output of one result, and a
\* later call is for a later result.
C10_OutputInScrollOrder ==
    /\ \A i \in 1..Len(sink) :
          /\ sink[i].n \in 1..Len(scrolled)
          /\ sink[i].text = OutputOf(scrolled[sink[i].n])
    /\ \A i, j \in 1..Len(sink) : i < j => sink[i].n < sink[j].n

\* the first and third results were written, the second was dropped
C10_Witness ==
    /\ Len(scrolled) = 3
    /\ Len(sink) = 2
    /\ sink[1].n = 1
    /\ sink[2].n = 3


\* ------------------------------------------------------------------------
\* main of either program, from the command line to the end of the run
\* (es-importer.py 112-154, es-exporter.py 74-130)
\* ------------------------------------------------------------------------
Bob == <<"b", "o", "b">>
Passwords == {None, JStr(<<"p", "w">>)}
CaCerts == {None, JStr(<<"c", "a">>)}
MainIdFields == {None, JStr(<<"a">>)}
MainCommands == {None, Cmd_cat, Cmd_bad}

\* es-importer.py 147: store_false gives True unless the flag is given
ParsedNoGenerateAction(given) == ~given
\* es-importer.py 154: the generate_action argument main receives
GenerateActionArg(given) == ~ParsedNoGenerateAction(given)

\* es-importer.py 113, "username is not 'elastic'": object identity. The
\* default of line 142 is the constant of line 113; a string taken from the
\* command line that spells elastic may or may not be that object.
IsNotElastic(name, from_argv) ==
    IF ~from_argv THEN {FALSE}
    ELSE IF name # Elastic THEN {TRUE}
    ELSE BOOLEAN

\* the outcomes of the credential test: es-importer.py 113, es-exporter.py 77
CredentialRejected(prog, name, from_argv, pw) ==
    IF prog = "importer"
       THEN {differs /\ pw # None : differs \in IsNotElastic(name, from_argv)}
       ELSE {name # Elastic /\ pw # None}

MainInit ==
    /\ program \in {"importer", "exporter"}
    /\ main_pc = "credentials"
    /\ main_err = NoError
    /\ es = "none"
    /\ argv_username \in BOOLEAN
    /\ username \in IF argv_username THEN {Elastic, Bob} ELSE {Elastic}
    /\ password \in Passwords
    /\ use_ssl \in BOOLEAN
    /\ ca_cert \in CaCerts
    \* the importer's arguments
    /\ argv_no_generate_action \in IF program = "importer" THEN BOOLEAN ELSE {FALSE}
    /\ generate_action = GenerateActionArg(argv_no_generate_action)
    /\ file_path \in IF program = "importer" THEN FilePaths ELSE {<<>>}
    /\ id_field \in IF program = "importer" THEN MainIdFields ELSE {None}
    /\ pipeline = None
    /\ chunk_size \in IF program = "importer" THEN 1..MaxImportChunk ELSE {0}
    /\ dry_run \in IF program = "importer" THEN BOOLEAN ELSE {FALSE}
    /\ records = <<>>
    /\ stream = <<>>
    /\ processed_data = <<>>
    /\ held = <<>>
    /\ pd_pc = IF program = "importer" THEN "idle" ELSE "done"
    /\ pf_pc = IF program = "importer" THEN "idle" ELSE "done"
    /\ batches = <<>>
    /\ stdout = <<>>
    /\ bulk_log = <<>>
    /\ bulk_acked = 0
    /\ rl_pc = "idle"
    /\ err = NoError
    \* the exporter's arguments
    /\ post_process \in IF program = "exporter" THEN MainCommands ELSE {None}
    /\ full = FALSE
    /\ output_file \in IF program = "exporter" THEN OutputFiles ELSE {None}
    /\ query_file \in IF program = "exporter" THEN QueryFiles ELSE {Stdin}
    /\ ex_pc = IF program = "exporter" THEN "idle" ELSE "done"
    /\ scrolled = <<>>
    /\ sink = <<>>
    /\ ex_err = NoError
    /\ output_target = "unopened"
    /\ query_source = "unopened"
    /\ running = {}
    /\ spawned = <<>>

run_args == <<program, username, argv_username, password, use_ssl, ca_cert,
              argv_no_generate_action>>

\* a ValueError of line `line` leaves main
MainRaise(line) ==
    /\ main_pc' = "raised"
    /\ main_err' = <<"ValueError", line>>
    /\ UNCHANGED <<run_args, es>>
    /\ UNCHANGED <<imp_vars, exp_vars>>

\* the test of a line does not fire: main goes on to `next`
MainPass(next) ==
    /\ main_pc' = next
    /\ UNCHANGED <<run_args, es, main_err>>
    /\ UNCHANGED <<imp_vars, exp_vars>>

\* es-importer.py 113-114, es-exporter.py 77-78
MainCredentialsRaise ==
    /\ main_pc = "credentials"
    /\ TRUE \in CredentialRejected(program, username, argv_username, password)
    /\ MainRaise(IF program = "importer" THEN 114 ELSE 78)

MainCredentialsPass ==
    /\ main_pc = "credentials"
    /\ FALSE \in CredentialRejected(program, username, argv_username, password)
    /\ MainPass(IF program = "importer" THEN "id_field" ELSE "ca_cert")

\* es-importer.py 116-117
MainIdFieldRaise ==
    /\ main_pc = "id_field"
    /\ id_field # None /\ ~generate_action
    /\ MainRaise(117)

MainIdFieldPass ==
    /\ main_pc = "id_field"
    /\ ~(id_field # None /\ ~generate_action)
    /\ MainPass("csv")

\* es-importer.py 119-120
MainCsvRaise ==
    /\ main_pc = "csv"
    /\ EndsWith(file_path, DotCsv) /\ ~generate_action
    /\ MainRaise(120)

MainCsvPassAlwaysMut ==
    /\ main_pc = "csv"
    /\ MainPass("ca_cert")
MainCsvPass ==
    /\ main_pc = "csv"
    /\ ~(EndsWith(file_path, DotCsv) /\ ~generate_action)
    /\ MainPass("ca_cert")

\* es-importer.py 122-123, es-exporter.py 80-81
MainCaCertRaise ==
    /\ main_pc = "ca_cert"
    /\ ca_cert # None /\ ~use_ssl
    /\ MainRaise(IF program = "importer" THEN 123 ELSE 81)

MainCaCertPass ==
    /\ main_pc = "ca_cert"
    /\ ~(ca_cert # None /\ ~use_ssl)
    /\ MainPass("construct")

\* es-importer.py 125-132: the client is constructed and process_file is
\* entered, which asks process_data for its first batch
MainConstructImporter ==
    /\ main_pc = "construct" /\ program = "importer"
    /\ es' = "open"
    /\ main_pc' = "run"
    /\ pf_pc' = "next"
    /\ pd_pc' = "loop"
    /\ UNCHANGED <<run_args, main_err>>
    /\ UNCHANGED <<imp_args, rl_pc, records, stream, processed_data, held, batches,
                   stdout,
                   bulk_log, bulk_acked, err>>
    /\ UNCHANGED exp_vars

\* es-exporter.py 84-93 and 56: the client is constructed, process_query
\* makes its generator, process_results takes its output target and asks
\* for the first result
MainConstructExporter ==
    /\ main_pc = "construct" /\ program = "exporter"
    /\ es' = "open"
    /\ main_pc' = "run"
    /\ ex_pc' = "next"
    /\ output_target' = OutputOpened(output_file)
    /\ UNCHANGED <<run_args, main_err>>
    /\ UNCHANGED <<post_process, full, scrolled, sink, ex_err, output_file, query_file,
                   query_source, running, spawned>>
    /\ UNCHANGED imp_vars

\* the pipeline main awaits has returned / has raised
PipelineDone == IF program = "importer" THEN pf_pc = "done" ELSE ex_pc = "done"
PipelineRaised == IF program = "importer" THEN pf_pc = "raised" ELSE ex_pc = "raised"

\* es-importer.py 133, es-exporter.py 95: the pipeline returned, the client
\* is closed and main returns
MainClose ==
    /\ main_pc = "run"
    /\ PipelineDone
    /\ es' = "closed"
    /\ main_pc' = "done"
    /\ UNCHANGED <<run_args, main_err>>
    /\ UNCHANGED <<imp_vars, exp_vars>>

\* es-importer.py 132, es-exporter.py 93: the awaited pipeline raised;
\* nothing in main catches it and the line that closes the client is skipped
MainPipelineRaises ==
    /\ main_pc = "run"
    /\ PipelineRaised
    /\ main_pc' = "raised"
    /\ main_err' = IF program = "importer" THEN err ELSE ex_err
    /\ UNCHANGED <<run_args, es>>
    /\ UNCHANGED <<imp_vars, exp_vars>>

RunExitNoShutdownMut ==
    /\ main_pc \in {"done", "raised"}
    /\ main_pc' = "exit"
    /\ UNCHANGED <<run_args, es, main_err>>
    /\ UNCHANGED <<imp_vars, exp_vars>>

\* asyncio.run (es-importer.py 153, es-exporter.py 116) ends the run: an
\* asynchronous generator still suspended is closed, so the finally of
\* process_query (lines 30-32) runs if it has not yet
RunExit ==
    /\ main_pc \in {"done", "raised"}
    /\ main_pc' = "exit"
    /\ query_source' = IF query_source = "open"
                          THEN QueryClosed(query_file, query_source)
                          ELSE query_source
    /\ UNCHANGED <<run_args, es, main_err>>
    /\ UNCHANGED <<post_process, full, ex_pc, scrolled, sink, ex_err, output_file,
                   query_file, output_target, running, spawned>>
    /\ UNCHANGED imp_vars

MainNext ==
    \/ MainCredentialsRaise
    \/ MainCredentialsPass
    \/ MainIdFieldRaise
    \/ MainIdFieldPass
    \/ MainCsvRaise
    \/ MainCsvPass
    \/ MainCaCertRaise
    \/ MainCaCertPass
    \/ MainConstructImporter
    \/ MainConstructExporter
    \/ ImportNext
    \/ ExportNext
    \/ MainClose
    \/ MainPipelineRaises
    \/ RunExit

MainSpec == MainInit /\ [][MainNext]_vars


\* ------------------------------------------------------------------------
\* Export to a line file, then import of that file (RoundTripSpec)
\* ------------------------------------------------------------------------
DotJsonl == <<".", "j", "s", "o", "n", "l">>
ExportedFile == <<"d">> \o DotJsonl

\* the lines of the file the exporter wrote: one per print call
FileLines(out) == [i \in 1..Len(out) |-> out[i].text]

RoundTripInit ==
    /\ file_path = ExportedFile
    /\ generate_action = TRUE
    /\ id_field = None
    /\ pipeline = None
    /\ chunk_size \in 1..MaxImportChunk
    /\ dry_run \in BOOLEAN
    /\ records = <<>>
    /\ stream = <<>>
    /\ processed_data = <<>>
    /\ held = <<>>
    /\ pd_pc = "idle"
    /\ pf_pc = "idle"
    /\ batches = <<>>
    /\ stdout = <<>>
    /\ bulk_log = <<>>
    /\ bulk_acked = 0
    /\ rl_pc = "idle"
    /\ err = NoError
    /\ post_process = None
    /\ full = FALSE
    /\ ex_pc = "next"
    /\ scrolled = <<>>
    /\ sink = <<>>
    /\ ex_err = NoError
    /\ output_file = JStr(ExportedFile)
    /\ query_file \in QueryFiles
    /\ output_target = OutputOpened(output_file)
    /\ query_source = "unopened"
    /\ running = {}
    /\ spawned = <<>>
    /\ InsidePipeline("exporter")

\* the export has ended and closed its file; the importer is started on it:
\* process_file asks for its first batch (es-importer.py 101-102)
RoundTripImport ==
    /\ program = "exporter"
    /\ ex_pc = "done" /\ output_target = "closed"
    /\ pf_pc = "idle"
    /\ program' = "importer"
    /\ pf_pc' = "next"
    /\ pd_pc' = "loop"
    /\ UNCHANGED <<main_pc, main_err, es, username, argv_username, password, use_ssl,
                   ca_cert, argv_no_generate_action>>
    /\ UNCHANGED <<imp_args, rl_pc, records, stream, processed_data, held, batches,
                   stdout,
                   bulk_log, bulk_acked, err>>
    /\ UNCHANGED exp_vars

RoundTripNext ==
    \/ ExportDirect
    \/ ExportEnd
    \/ ExportScrollFails
    \/ RoundTripImport
    \/ ImportReadJsonl

RoundTripSpec == RoundTripInit /\ [][RoundTripNext]_vars

\* the group process_stream yields in synthesize mode, with no id field, for
\* the record a file line decodes to
SynthesizedGroup(document) ==
    << Dumps(JObj(<< <<K_index, JObj(<<>>)>> >>), TRUE), Dumps(document, TRUE) >>

\* C11: once the import of the exported file has ended, it ended without an
\* error and the groups process_stream yielded are, in scroll order, one
\* per exported document: the synthesized index action followed by a
\* document line whose payload is the document's payload.
C11_RoundTrip ==
    (program = "importer" /\ pf_pc \in {"done", "raised"}) =>
        /\ err = NoError
        /\ Len(FileLines(sink)) = Len(scrolled)
        /\ stream = [n \in 1..Len(scrolled) |->
                        SynthesizedGroup(Lookup(scrolled[n], K_source))]


\* ------------------------------------------------------------------------
\* Properties of main (MainSpec)
\* ------------------------------------------------------------------------
\* C12: in either program, when main has been left (by return or by an
\* exception) after the store client was constructed, the client has been
\* closed.
C12_ClientClosedOnExit ==
    (main_pc \in {"done", "raised", "exit"} /\ es # "none") => es = "closed"

\* the three misuses of the arguments that main tests for after the
\* credential test
ConfigMisused ==
    \/ id_field # None /\ ~generate_action
    \/ EndsWith(file_path, DotCsv) /\ ~generate_action
    \/ ca_cert # None /\ ~use_ssl

\* C13: with an id field and no generate_action, a .csv path and no
\* generate_action, or a CA certificate and no TLS, main never gets as far
\* as constructing the client: no client exists, no file was opened, no
\* record read, no request issued, and if main was left it was by a
\* ValueError.
C13_ConfigErrorBeforeIO ==
    ConfigMisused =>
        /\ es = "none"
        /\ main_pc \notin {"construct", "run", "done"}
        /\ pf_pc \in {"idle", "done"} /\ ex_pc \in {"idle", "done"}
        /\ records = <<>> /\ bulk_log = <<>> /\ stdout = <<>>
        /\ scrolled = <<>> /\ sink = <<>>
        /\ output_target = "unopened" /\ query_source = "unopened"
        /\ main_pc \in {"raised", "exit"} => main_err[1] = "ValueError"

\* the importer, given a .csv path without generate_action and nothing else
\* wrong, has raised the error of line 120
C13_Witness ==
    /\ program = "importer"
    /\ EndsWith(file_path, DotCsv) /\ ~generate_action
    /\ id_field = None /\ ca_cert = None
    /\ main_pc = "raised"
    /\ main_err = <<"ValueError", 120>>


\* ------------------------------------------------------------------------
\* read_lines on its own (es-importer.py 17-43): ReadLinesSpec
\* ------------------------------------------------------------------------
MaxLines == 3   \* lines a file holds at most

\* str.lower() on the characters that occur in the paths tried
Lower(c) ==
    CASE c = "G" -> "g"
      [] c = "Z" -> "z"
      [] OTHER -> c

\* line 19: file_path[file_path.rfind('.'):].lower(); rfind gives -1 when
\* there is no dot, and the slice is then the last character
FileExtension(path) ==
    LET dots == {i \in 1..Len(path) : path[i] = "."}
        from == IF dots = {} THEN Len(path)
                ELSE CHOOSE i \in dots : \A j \in dots : j <= i
        tail == IF path = <<>> THEN <<>> ELSE SubSeq(path, from, Len(path))
    IN  [i \in 1..Len(tail) |-> Lower(tail[i])]

LineExtensions == { <<".", "j", "s", "o", "n">>, DotJsonl }               \* line 25
supported_extensions == { <<".", "g", "z">>, <<".", "b", "z", "2">>,      \* line 18
                          <<".", "z", "i", "p">>, <<".", "x", "z">> }

ReadLinesPaths ==
    { Stdin, ExportedFile, <<"d", ".", "j", "s", "o", "n">>, <<"d", ".", "g", "z">>,
      <<"d", ".", "G", "Z">>, <<"d">> \o DotCsv, <<"d", ".", "t", "x", "t">>, <<"d">> }

\* lines as the file object hands them over, line end included
RawLines == { <<"x", "\n">>, <<" ", "y", " ", "\n">>, <<"\n">> }

ReadLinesInit ==
    /\ file_path \in ReadLinesPaths
    /\ generate_action = FALSE
    /\ id_field = None
    /\ pipeline = None
    /\ chunk_size = 0
    /\ dry_run = FALSE
    /\ records = <<>>
    /\ stream = <<>>
    /\ processed_data = <<>>
    /\ held = <<>>
    /\ pd_pc = "idle"
    /\ pf_pc = "idle"
    /\ batches = <<>>
    /\ stdout = <<>>
    /\ bulk_log = <<>>
    /\ bulk_acked = 0
    /\ rl_pc = "start"
    /\ err = NoError
    /\ post_process = None
    /\ full = FALSE
    /\ ex_pc = "done"
    /\ scrolled = <<>>
    /\ sink = <<>>
    /\ ex_err = NoError
    /\ ExportUnused
    /\ InsidePipeline("importer")

rl_rest == <<generate_action, id_field, pipeline, chunk_size, dry_run, stream,
             processed_data, held, pd_pc, pf_pc, batches, stdout, bulk_log, bulk_acked>>

\* lines 21-22: the path is '-'; what is opened is the bound method
\* sys.stdin.readline, which open() does not take for a path
ReadLinesStdin ==
    /\ rl_pc = "start"
    /\ file_path = Stdin
    /\ rl_pc' = "raised"
    /\ err' = <<"TypeError", 22>>
    /\ UNCHANGED <<file_path, records, rl_rest>>
    /\ UNCHANGED <<exp_vars, run_vars>>

\* lines 25-26 and 29-39: the extension names a line file or a compressed
\* one, which is opened
ReadLinesOpen ==
    /\ rl_pc = "start"
    /\ file_path # Stdin
    /\ FileExtension(file_path) \in LineExtensions \cup supported_extensions
    /\ rl_pc' = "lines"
    /\ UNCHANGED <<file_path, records, err, rl_rest>>
    /\ UNCHANGED <<exp_vars, run_vars>>

\* lines 42-43: any other extension
ReadLinesUnsupported ==
    /\ rl_pc = "start"
    /\ file_path # Stdin
    /\ FileExtension(file_path) \notin LineExtensions \cup supported_extensions
    /\ rl_pc' = "raised"
    /\ err' = <<"ValueError", 43>>
    /\ UNCHANGED <<file_path, records, rl_rest>>
    /\ UNCHANGED <<exp_vars, run_vars>>

\* lines 27-28 and 40-41: the next line of the file, stripped
ReadLinesYield ==
    /\ rl_pc = "lines"
    /\ Len(records) < MaxLines
    /\ \E line \in RawLines : records' = Append(records, Strip(line))
    /\ UNCHANGED <<file_path, rl_pc, err, rl_rest>>
    /\ UNCHANGED <<exp_vars, run_vars>>

\* the file is exhausted and read_lines ends
ReadLinesEnd ==
    /\ rl_pc = "lines"
    /\ rl_pc' = "done"
    /\ UNCHANGED <<file_path, records, err, rl_rest>>
    /\ UNCHANGED <<exp_vars, run_vars>>

ReadLinesNext ==
    \/ ReadLinesStdin
    \/ ReadLinesOpen
    \/ ReadLinesUnsupported
    \/ ReadLinesYield
    \/ ReadLinesEnd

ReadLinesSpec == ReadLinesInit /\ [][ReadLinesNext]_vars

\* C14: with the path '-' read_lines never raises: it is not stopped by the
\* unsupported-file-type error nor by any other, and goes on to yield lines
\* and end normally.
C14_StdinReadsLines ==
    file_path = Stdin => (rl_pc # "raised" /\ err = NoError)


\* ------------------------------------------------------------------------
\* Sequencing of the pipelines (ExportSpec, ImportSpec)
\* ------------------------------------------------------------------------
\* C15: with a command, at every moment at most one command is running and
\* it is the one of the result scrolled last; one command has been started
\* per scrolled result, in scroll order; and a result is taken from the
\* scroll only when no command is running and every earlier result whose
\* command output is not blank has its print call made.
C15_OneCommandAtATime ==
    /\ [](Truthy(post_process) =>
            /\ Cardinality(running) <= 1
            /\ running # {} => (running = {Len(scrolled)} /\ ex_pc = "proc")
            /\ spawned = [n \in 1..Len(scrolled) |-> n])
    /\ [][(Truthy(post_process) /\ scrolled' # scrolled) =>
            /\ running = {}
            /\ \A n \in 1..Len(scrolled) :
                  ~AllWhite(RawOutput(n)) => Cardinality(PrintsOf(n)) = 1]_vars

\* the command of the second result is running, after the line of the
\* first was written
C15_Witness ==
    /\ Truthy(post_process)
    /\ running = {2}
    /\ PrintsOf(1) # {}

\* bulk requests issued and not yet answered
InFlight == Len(bulk_log) - bulk_acked

\* what holds of the bulk requests at every moment, whatever was pulled
BulkSendsInOrder ==
    /\ InFlight \in {0, 1}
    /\ Len(bulk_log) <= Len(batches)
    /\ \A i \in 1..Len(bulk_log) : bulk_log[i] = BulkRequest(batches[i], IndexName, pipeline)
    /\ InFlight = 1 => (pf_pc = "bulk" /\ Len(bulk_log) = Len(batches))
    /\ (err # NoError /\ err[1] = "TransportError") => InFlight = 0

\* what holds of every step: nothing is pulled from the reader and nothing
\* is appended to the accumulator while a request is in flight, a batch
\* handed over is never changed, and after an error no request is issued
BulkStepsSerialised ==
    /\ records' # records => InFlight = 0
    /\ processed_data' # processed_data => InFlight' = 0
    /\ \A i \in 1..Len(batches) : batches'[i] = batches[i]
    /\ err # NoError => bulk_log' = bulk_log

\* C16 as stated: when sending, at most one bulk request is in flight, the
\* requests carry the batches in the order they were built, each batch
\* complete; while a request is in flight every record pulled so far is in
\* a batch already built (none was pulled for the next batch); after a
\* failed request no other is issued.
C16_NoPullBeforeReturn ==
    /\ [](~dry_run =>
            /\ BulkSendsInOrder
            /\ InFlight = 1 => (held = <<>> /\ Flatten(stream) = Flatten(batches)))
    /\ [][~dry_run => BulkStepsSerialised]_vars

\* C16, amended: the same, except that while a request is in flight the
\* lines pulled so far are those of the batches built followed by the one
\* group process_data holds, the group whose arrival made it yield the
\* batch at line 87 and which it appends only once the request has returned.
C16_NoAppendBeforeReturn ==
    /\ [](~dry_run =>
            /\ BulkSendsInOrder
            /\ InFlight = 1 => Flatten(stream) = Flatten(batches) \o held)
    /\ [][~dry_run => BulkStepsSerialised]_vars

\* a second request is in flight while process_data holds the group that
\* made it yield, and an earlier request has returned
C16_Witness ==
    /\ ~dry_run
    /\ InFlight = 1
    /\ bulk_acked >= 1
    /\ held # <<>>


\* ------------------------------------------------------------------------
\* Files of the exporter (MainSpec)
\* ------------------------------------------------------------------------
\* C17: a file process_results opened for the output is closed when
\* process_results is left, and a file process_query opened for the query
\* is closed when the scroll is exhausted or fails and, in every case, by
\* the end of the run; this includes the run ended by an error of the
\* command's output while process_query is suspended at its yield.
C17_FilesClosedAtExit ==
    /\ ex_pc \in {"done", "raised"} => output_target # "open"
    /\ (ex_pc = "done" \/ ex_err = <<"TransportError", 22>>) => query_source # "open"
    /\ main_pc = "exit" => (output_target # "open" /\ query_source # "open")
    /\ (main_pc = "exit" /\ scrolled # <<>> /\ query_file # Stdin) => query_source = "closed"
    /\ (main_pc = "exit" /\ es # "none" /\ output_file # None) => output_target = "closed"

\* the run ended by a decode error of the command's output, raised while
\* process_query was suspended; both files were opened and are closed
C17_Witness ==
    /\ program = "exporter"
    /\ main_pc = "exit"
    /\ main_err = <<"UnicodeDecodeError", 50>>
    /\ output_file # None /\ output_target = "closed"
    /\ query_file # Stdin /\ query_source = "closed"


\* ------------------------------------------------------------------------
\* Arguments of main (MainSpec)
\* ------------------------------------------------------------------------
\* main was left by the error of the credential test
CredentialError == main_err \in {<<"ValueError", 114>>, <<"ValueError", 78>>}

\* C18: once the credential test is decided, main has raised its error if
\* -u was given without -p, and has not raised it if both were given (also
\* with a user name other than the default) or neither was. (-p given with
\* the default user name is left open: the default counts as a user name.)
C18_CredentialPairChecked ==
    main_pc # "credentials" =>
        /\ (argv_username /\ password = None) => CredentialError
        /\ (argv_username /\ password # None) => ~CredentialError
        /\ (~argv_username /\ password = None) => ~CredentialError

\* C20: past its tests of the mode, the importer's main runs in synthesize
\* mode when --no-generate-action was not given, and then has not refused a
\* .csv path for want of generated actions; it runs in pass-through mode
\* when the flag was given.
C20_FlagSelectsMode ==
    (program = "importer" /\ main_pc \notin {"credentials", "id_field", "csv"}) =>
        /\ generate_action = ~argv_no_generate_action
        /\ (~argv_no_generate_action /\ EndsWith(file_path, DotCsv))
              => main_err # <<"ValueError", 120>>


\* ------------------------------------------------------------------------
\* Batches handed to the consumer (ImportSpec)
\* ------------------------------------------------------------------------
\* C19: every batch process_data has handed to the loop body of
\* process_file, to be sent or printed, holds at least one line.
C19_NoEmptyBatch ==
    \A b \in 1..Len(batches) : batches[b] # <<>>

====
